---- MODULE Spec2Model ----
(***************************************************************************)
(* IDVStorage (src/src/lib.rs): a vector of InterleavedGroup, each holding *)
(* SPARSE_RATIO u16 redirect entries and one Option<T> payload, together   *)
(* with the allocation cursor next_free_slot.                              *)
(*                                                                         *)
(* Number representation.  usize values are 64 bits wide and the code      *)
(* subtracts 1 from 0 (lib.rs:60, lib.rs:65).  A usize is represented here *)
(* by the residue of its value modulo 2^64 that lies nearest to zero, so   *)
(* usize::MAX is -1, usize::MAX - 1 is -2, and so on.  Addition and        *)
(* subtraction of 1 on that representation ARE the wrapping operations of  *)
(* a release build; a debug build panics where the representation crosses  *)
(* zero.  Unsigned comparison is ULess.  Because 2^16 divides 2^64, the    *)
(* cast `as u16` is the representative modulo 2^16.                        *)
(*                                                                         *)
(* Unchecked accesses.  get_unchecked / get_unchecked_mut outside the      *)
(* vector are undefined behaviour.  A read outside the table yields a      *)
(* value chosen by the environment (the parameter oob of the operators).   *)
(* A write outside the table lands in memory that is not the table: the    *)
(* table keeps its content and the run ends in fault = "ub", after which   *)
(* nothing more is modelled.                                               *)
(***************************************************************************)
EXTENDS Integers, Sequences, FiniteSets, TLC

VARIABLES inner, next_free_slot, build, shadow, fault, last

vars == <<inner, next_free_slot, build, shadow, fault, last>>

(* ------------------------------ bounds -------------------------------- *)

\* No insert is taken that leaves the table longer than MaxLen groups
\* (specification SpecNoClean) or than MaxLenClean groups (specification Spec).
MaxLen == 10

MaxLenClean == 6

\* check_prefill is tried with every argument in 0 .. MaxPrefill.
MaxPrefill == 3

\* In specification SpecWide no insert is taken that leaves the cursor
\* more than MaxBelow positions below the first position that does not
\* fit the 16-bit redirect field.
MaxBelow == 4

\* The sparse indices used.
Keys == {0, 1}

\* The payloads.  The code never inspects a payload, so two values are
\* enough to tell the content of one slot from that of another.
Values == {"a", "b"}

(* ------------------------ program constants --------------------------- *)

SPARSE_RATIO == 4

U16 == 65536

(* ------------------------------ Option -------------------------------- *)

None == <<>>

Some(v) == <<v>>

(* --------------------------- usize helpers ---------------------------- *)

\* a < b as unsigned 64-bit numbers, on the representatives.
ULess(a, b) ==
    \/ a >= 0 /\ b >= 0 /\ a < b
    \/ a >= 0 /\ b < 0
    \/ a < 0 /\ b < 0 /\ a < b

\* `x as u16`
AsU16(x) == x % U16

\* The smallest index whose check_prefill makes a table of U16 groups.
BigIdx == U16 \div SPARSE_RATIO

\* The sparse indices used by specification SpecWide.
WideKeys == {BigIdx}

(* ------------------------- InterleavedGroup --------------------------- *)

blank == [redirects |-> [j \in 0 .. SPARSE_RATIO - 1 |-> 0], data |-> None]

GroupIdx(idx) == idx \div SPARSE_RATIO

GroupSub(idx) == idx % SPARSE_RATIO

InBounds(inn, p) == p >= 0 /\ p < Len(inn)

\* The group at 0-based position p of the vector.
At(inn, p) == inn[p + 1]

SetData(inn, p, d) == [inn EXCEPT ![p + 1].data = d]

SetRedirect(inn, idx, r) ==
    [inn EXCEPT ![GroupIdx(idx) + 1].redirects[GroupSub(idx)] = r]

(* --------------------------- check_prefill ---------------------------- *)

\* check_prefill with the loop replaced by pushing the reserved count
\* `additional` of groups.
check_prefill_additional(inn, idx_cap) ==
    LET covered    == Len(inn) \div SPARSE_RATIO
        additional == IF idx_cap > covered THEN idx_cap - covered ELSE 0
    IN  inn \o [n \in 1 .. additional |-> blank]

\* The loop pushes one blank group while len / SPARSE_RATIO < idx_cap: it
\* is not entered when the condition fails at the start, and otherwise it
\* ends at the first length with len / SPARSE_RATIO = idx_cap, which is
\* SPARSE_RATIO * idx_cap.
check_prefill(inn, idx_cap) ==
    IF Len(inn) \div SPARSE_RATIO < idx_cap
    THEN inn \o [n \in 1 .. SPARSE_RATIO * idx_cap - Len(inn) |-> blank]
    ELSE inn

(* ----------------------------- find_free ------------------------------ *)

\* The while loop of find_free, entered with loop variable i after n
\* iterations.  Nothing in the loop changes the table, so a scan that has
\* read more positions than the table has will never end: it cycles over
\* occupied positions or runs on through memory outside the table.
RECURSIVE Scan(_, _, _, _, _, _)
Scan(inn, start, i, bld, oob, n) ==
    IF i = start + 1
    THEN [kind |-> "exhausted", point |-> 0, wild |-> FALSE, iters |-> n]
    ELSE IF bld = "debug" /\ Len(inn) = 0
    THEN [kind |-> "panic", point |-> 0, wild |-> FALSE, iters |-> n]
    ELSE LET i2   == IF i = Len(inn) - 1 THEN 0 ELSE i
             inb  == InBounds(inn, i2)
             none == IF inb THEN At(inn, i2).data = None ELSE oob
         IN  IF none
             THEN [kind |-> "found", point |-> i2, wild |-> ~inb, iters |-> n + 1]
             ELSE IF n > Len(inn)
             THEN [kind |-> "diverge", point |-> i2, wild |-> ~inb, iters |-> n + 1]
             ELSE IF bld = "debug" /\ i2 = -1
             THEN [kind |-> "panic", point |-> 0, wild |-> TRUE, iters |-> n + 1]
             ELSE LET r == Scan(inn, start, i2 + 1, bld, oob, n + 1)
                  IN  [r EXCEPT !.wild = r.wild \/ ~inb]

\* find_free without the two pushes: when the loop finds nothing, the
\* cursor position is handed out as it is.
find_free_no_push(inn, nfs, bld, oob) ==
    IF bld = "debug" /\ nfs = 0
    THEN [kind |-> "panic", point |-> 0, inner |-> inn, nfs |-> nfs,
          wild |-> FALSE, iters |-> 0]
    ELSE LET start == nfs - 1
             s     == Scan(inn, start, start, bld, oob, 0)
         IN  CASE s.kind = "found" ->
                    [kind |-> "ret", point |-> s.point, inner |-> inn,
                     nfs |-> s.point, wild |-> s.wild, iters |-> s.iters]
               [] s.kind = "exhausted" ->
                    [kind |-> "ret", point |-> nfs, inner |-> inn,
                     nfs |-> nfs, wild |-> s.wild, iters |-> s.iters]
               [] OTHER ->
                    [kind |-> s.kind, point |-> s.point, inner |-> inn,
                     nfs |-> nfs, wild |-> s.wild, iters |-> s.iters]

\* find_free: [kind, point, inner, nfs, wild, iters]; kind is "ret" when it
\* returns point, "panic" on a debug-build arithmetic overflow, "diverge"
\* when the loop does not end.
find_free(inn, nfs, bld, oob) ==
    IF bld = "debug" /\ nfs = 0
    THEN [kind |-> "panic", point |-> 0, inner |-> inn, nfs |-> nfs,
          wild |-> FALSE, iters |-> 0]
    ELSE LET start == nfs - 1
             s     == Scan(inn, start, start, bld, oob, 0)
             grown == Append(Append(inn, blank), blank)
         IN  CASE s.kind = "found" ->
                    [kind |-> "ret", point |-> s.point, inner |-> inn,
                     nfs |-> s.point, wild |-> s.wild, iters |-> s.iters]
               [] s.kind = "exhausted" ->
                    [kind |-> "ret", point |-> Len(grown) - 1, inner |-> grown,
                     nfs |-> Len(grown) - 1, wild |-> s.wild, iters |-> s.iters]
               [] OTHER ->
                    [kind |-> s.kind, point |-> s.point, inner |-> inn,
                     nfs |-> nfs, wild |-> s.wild, iters |-> s.iters]

(* ------------------------------ c_insert ------------------------------ *)

\* c_insert: [outcome, inner, nfs, point, wild, iters].  outcome is "ok"
\* when the call returns having written only inside the table, "panic"
\* when a debug build aborts it (the growth made so far stays), "ub" when
\* it writes outside the table, "hang" when find_free does not return.
c_insert(inn, nfs, bld, idx, v, oob) ==
    LET pre == check_prefill(inn, idx)
        ff  == find_free(pre, nfs, bld, oob)
        internal_point == ff.point
        res(o, i2, n2) ==
            [outcome |-> o, inner |-> i2, nfs |-> n2, point |-> internal_point,
             wild |-> ff.wild, iters |-> ff.iters]
    IN  IF ff.kind = "panic" THEN res("panic", pre, nfs)
        ELSE IF ff.kind = "diverge" THEN res("hang", pre, nfs)
        ELSE IF bld = "debug" /\ ~ULess(internal_point, Len(ff.inner))
        THEN res("panic", ff.inner, ff.nfs)
        ELSE IF bld = "debug" /\ ~(GroupIdx(idx) < Len(ff.inner))
        THEN res("panic", ff.inner, ff.nfs)
        ELSE IF ~(GroupIdx(idx) < Len(ff.inner))
        THEN res("ub", ff.inner, ff.nfs)
        ELSE LET red == SetRedirect(ff.inner, idx, AsU16(internal_point))
             IN  IF InBounds(red, internal_point)
                 THEN res("ok", SetData(red, internal_point, Some(v)), ff.nfs)
                 ELSE res("ub", red, ff.nfs)

(* ----------------- resolve_to_internal, c_get, c_remove --------------- *)

\* resolve_to_internal: [kind, val]; kind "ret" with the redirect entry,
\* "panic" when the debug assertion fails, "ub" when the entry is read
\* outside the table.
resolve_to_internal(inn, bld, idx) ==
    IF GroupIdx(idx) < Len(inn)
    THEN [kind |-> "ret", val |-> At(inn, GroupIdx(idx)).redirects[GroupSub(idx)]]
    ELSE [kind |-> IF bld = "debug" THEN "panic" ELSE "ub", val |-> 0]

\* The dense slot the redirect entry of idx leads to, as c_get, c_get_mut
\* and c_remove compute it: [kind, val].
Internal(inn, bld, idx) ==
    LET r == resolve_to_internal(inn, bld, idx)
    IN  IF r.kind # "ret" THEN r
        ELSE IF r.val < Len(inn) THEN r
        ELSE [kind |-> IF bld = "debug" THEN "panic" ELSE "ub", val |-> r.val]

\* c_get: [kind, val] with val the Option returned.
c_get(inn, bld, idx) ==
    LET r == Internal(inn, bld, idx)
    IN  IF r.kind # "ret" THEN [kind |-> r.kind, val |-> None]
        ELSE [kind |-> "ret", val |-> At(inn, r.val).data]

\* UnprotectedStorage::get: c_get(idx).unwrap()
get_unwrap(inn, bld, idx) ==
    LET r == c_get(inn, bld, idx)
    IN  IF r.kind = "ret" /\ r.val = None THEN [kind |-> "panic", val |-> None]
        ELSE r

\* *get_mut(idx) = v: [kind, inner]
get_mut_write(inn, bld, idx, v) ==
    LET r == Internal(inn, bld, idx)
    IN  IF r.kind # "ret" THEN [kind |-> r.kind, inner |-> inn]
        ELSE IF At(inn, r.val).data = None THEN [kind |-> "panic", inner |-> inn]
        ELSE [kind |-> "ret", inner |-> SetData(inn, r.val, Some(v))]

\* c_remove that also resets the redirect entry of idx to its blank value.
c_remove_clears_redirect(inn, bld, idx) ==
    LET r == Internal(inn, bld, idx)
    IN  IF r.kind # "ret" THEN [kind |-> r.kind, val |-> None, inner |-> inn]
        ELSE [kind |-> "ret", val |-> At(inn, r.val).data,
              inner |-> SetRedirect(SetData(inn, r.val, None), idx, 0)]

\* c_remove: [kind, val, inner]; data.take() empties the slot.
c_remove(inn, bld, idx) ==
    LET r == Internal(inn, bld, idx)
    IN  IF r.kind # "ret" THEN [kind |-> r.kind, val |-> None, inner |-> inn]
        ELSE [kind |-> "ret", val |-> At(inn, r.val).data,
              inner |-> SetData(inn, r.val, None)]

\* UnprotectedStorage::remove: c_remove(idx).unwrap()
remove_unwrap(inn, bld, idx) ==
    LET r == c_remove(inn, bld, idx)
    IN  IF r.kind = "ret" /\ r.val = None THEN [r EXCEPT !.kind = "panic"]
        ELSE r

(* ------------------------------ c_clean ------------------------------- *)

\* The index c_clean hands to has.contains for entry j of group i.
CleanTested(i, j) == i * j

\* The pairs (group, sub-slot) whose redirect entry c_clean reads.
CleanDereferenced(inn, has) ==
    {gs \in (0 .. Len(inn) - 1) \X (0 .. SPARSE_RATIO - 1) :
        CleanTested(gs[1], gs[2]) \in has}

\* The inner loop of c_clean over the entries j .. SPARSE_RATIO - 1 of
\* group i: the redirect entries it pushes, in order.
RECURSIVE GroupGarbage(_, _, _, _)
GroupGarbage(inn, has, i, j) ==
    IF j >= SPARSE_RATIO THEN <<>>
    ELSE (IF CleanTested(i, j) \in has
          THEN <<At(inn, i).redirects[j]>> ELSE <<>>)
         \o GroupGarbage(inn, has, i, j + 1)

\* The first loop of c_clean from group i on: the sequence garbage.
RECURSIVE Garbage(_, _, _)
Garbage(inn, has, i) ==
    IF i >= Len(inn) THEN <<>>
    ELSE GroupGarbage(inn, has, i, 0) \o Garbage(inn, has, i + 1)

\* The second loop of c_clean: self.inner[idx].data = None for each idx of
\* garbage in order, bounds-checked: the first idx outside the table
\* panics, with the slots before it already emptied.
Sweep(inn, garbage) ==
    LET bad   == {n \in 1 .. Len(garbage) : ~(garbage[n] < Len(inn))}
        stop  == IF bad = {} THEN Len(garbage) + 1
                 ELSE CHOOSE n \in bad : \A m \in bad : n <= m
        freed == {garbage[n] : n \in 1 .. stop - 1}
    IN  [kind  |-> IF bad = {} THEN "ret" ELSE "panic",
         inner |-> [p \in 1 .. Len(inn) |->
                       IF p - 1 \in freed THEN [inn[p] EXCEPT !.data = None]
                       ELSE inn[p]]]

c_clean(inn, has) == Sweep(inn, Garbage(inn, has, 0))

(* --------------------------- state machine ---------------------------- *)

\* What the last call was and how it ended.
Call(op, idx, has, outcome, ret) ==
    [op |-> op, idx |-> idx, has |-> has, outcome |-> outcome, ret |-> ret]

\* The keys the caller holds live: inserted and neither removed nor cleaned.
Live == {k \in DOMAIN shadow : shadow[k] # None}

FaultOf(outcome) == IF outcome \in {"ub", "hang"} THEN outcome ELSE "none"

\* IDVStorage::default(), in a debug or in a release build.
Init ==
    /\ inner = <<>>
    /\ next_free_slot = 0
    /\ build \in {"debug", "release"}
    /\ shadow = [k \in Keys |-> None]
    /\ fault = "none"
    /\ last = Call("default", 0, {}, "ok", None)

\* UnprotectedStorage::insert(idx, v) on a key that is not live.
insert(idx, v, oob, cap) ==
    /\ fault = "none"
    /\ shadow[idx] = None
    /\ LET r == c_insert(inner, next_free_slot, build, idx, v, oob)
       IN  /\ Len(r.inner) <= cap
           /\ inner' = r.inner
           /\ next_free_slot' = r.nfs
           /\ shadow' = IF r.outcome \in {"ok", "ub"}
                        THEN [shadow EXCEPT ![idx] = Some(v)] ELSE shadow
           /\ fault' = FaultOf(r.outcome)
           /\ last' = Call("insert", idx, {}, r.outcome, None)
    /\ UNCHANGED build

\* UnprotectedStorage::get(idx) on a live key.
get(idx) ==
    /\ fault = "none"
    /\ shadow[idx] # None
    /\ LET r == get_unwrap(inner, build, idx)
       IN  /\ fault' = FaultOf(r.kind)
           /\ last' = Call("get", idx, {}, IF r.kind = "ret" THEN "ok" ELSE r.kind,
                           r.val)
    /\ UNCHANGED <<inner, next_free_slot, build, shadow>>

\* *UnprotectedStorage::get_mut(idx) = v on a live key.
get_mut(idx, v) ==
    /\ fault = "none"
    /\ shadow[idx] # None
    /\ LET r == get_mut_write(inner, build, idx, v)
       IN  /\ inner' = r.inner
           /\ shadow' = IF r.kind = "ret"
                        THEN [shadow EXCEPT ![idx] = Some(v)] ELSE shadow
           /\ fault' = FaultOf(r.kind)
           /\ last' = Call("get_mut", idx, {}, IF r.kind = "ret" THEN "ok" ELSE r.kind,
                           None)
    /\ UNCHANGED <<next_free_slot, build>>

\* UnprotectedStorage::remove(idx) on a live key.
remove(idx) ==
    /\ fault = "none"
    /\ shadow[idx] # None
    /\ LET r == remove_unwrap(inner, build, idx)
       IN  /\ inner' = r.inner
           /\ shadow' = [shadow EXCEPT ![idx] = None]
           /\ fault' = FaultOf(r.kind)
           /\ last' = Call("remove", idx, {}, IF r.kind = "ret" THEN "ok" ELSE r.kind,
                           r.val)
    /\ UNCHANGED <<next_free_slot, build>>

\* UnprotectedStorage::clean(has); the caller drops the keys of has.
clean(has) ==
    /\ fault = "none"
    /\ LET r == c_clean(inner, has)
       IN  /\ inner' = r.inner
           /\ shadow' = [k \in Keys |-> IF k \in has THEN None ELSE shadow[k]]
           /\ fault' = "none"
           /\ last' = Call("clean", 0, has, IF r.kind = "ret" THEN "ok" ELSE r.kind,
                           None)
    /\ UNCHANGED <<next_free_slot, build>>

NextNoClean ==
    \/ \E idx \in Keys, v \in Values, oob \in BOOLEAN : insert(idx, v, oob, MaxLen)
    \/ \E idx \in Keys : get(idx)
    \/ \E idx \in Keys, v \in Values : get_mut(idx, v)
    \/ \E idx \in Keys : remove(idx)

Next ==
    \/ \E idx \in Keys, v \in Values, oob \in BOOLEAN : insert(idx, v, oob, MaxLenClean)
    \/ \E idx \in Keys : get(idx)
    \/ \E idx \in Keys, v \in Values : get_mut(idx, v)
    \/ \E idx \in Keys : remove(idx)
    \/ \E has \in SUBSET Keys : clean(has)

\* Every operation of the storage, clean included.
Spec == Init /\ [][Next]_vars

\* The operations insert, get, get_mut and remove alone.
SpecNoClean == Init /\ [][NextNoClean]_vars

\* IDVStorage::default() for a caller that uses the indices WideKeys.
InitWide ==
    /\ inner = <<>>
    /\ next_free_slot = 0
    /\ build \in {"debug", "release"}
    /\ shadow = [k \in WideKeys |-> None]
    /\ fault = "none"
    /\ last = Call("default", 0, {}, "ok", None)

NextWide ==
    \/ \E idx \in WideKeys, v \in Values, oob \in BOOLEAN :
           /\ insert(idx, v, oob, U16 + SPARSE_RATIO)
           /\ next_free_slot' >= U16 - MaxBelow
    \/ \E idx \in WideKeys : get(idx)
    \/ \E idx \in WideKeys, v \in Values : get_mut(idx, v)
    \/ \E idx \in WideKeys : remove(idx)

\* insert, get, get_mut and remove on a table with more than U16 groups.
SpecWide == InitWide /\ [][NextWide]_vars

(* ============================== claims ================================ *)

\* The redirect entry of key k as stored in the table (0 when the table
\* does not cover k's group).
Redirect(k) ==
    IF GroupIdx(k) < Len(inner)
    THEN At(inner, GroupIdx(k)).redirects[GroupSub(k)] ELSE 0

(* C1: Round-trip.  insert(k, v) on a key that is not live, followed by     *)
(* get(k), yields v: every insert call returns normally, and right after it *)
(* get(k) returns the value the caller inserted.                            *)
C1_RoundTrip ==
    last.op = "insert" =>
        /\ last.outcome = "ok"
        /\ get_unwrap(inner, build, last.idx) =
               [kind |-> "ret", val |-> shadow[last.idx]]

C3_CleanFrees ==
    fault = "none" =>
        \A has \in SUBSET Keys : \A k \in Live \cap has :
            LET r == c_clean(inner, has)
            IN  /\ r.kind = "ret"
                /\ InBounds(r.inner, Redirect(k))
                /\ At(r.inner, Redirect(k)).data = None

(* C4: Clean touches nothing else.  For every liveness set L and every live *)
(* key k that is not in L, get(k) after clean(L) returns what it returned   *)
(* before the call.                                                         *)
C4_CleanFrame ==
    fault = "none" =>
        \A has \in SUBSET Keys : \A k \in Live \ has :
            c_get(c_clean(inner, has).inner, build, k) = c_get(inner, build, k)

(* C5: Remove returns the stored value and frees its slot.  If k is live    *)
(* and v is the last value inserted or written for k, remove(k) returns v   *)
(* and leaves the slot that k's redirect entry names empty.                 *)
C5_RemoveReturns ==
    fault = "none" =>
        \A k \in Live :
            LET r == remove_unwrap(inner, build, k)
            IN  /\ r.kind = "ret"
                /\ r.val = shadow[k]
                /\ At(r.inner, Redirect(k)).data = None

\* The largest key in use.
MaxKey == CHOOSE k \in Keys : \A j \in Keys : j <= k

\* The table length that covers every key of Keys and holds one payload
\* per key: what check_prefill makes for the largest key, plus one growth
\* step of find_free.
ReuseBound == SPARSE_RATIO * MaxKey + 2

(* C6: Reuse bounds the table.  Under insert / remove calls on the fixed    *)
(* key set Keys, whatever their number, the table length stays within the   *)
(* bound that the key set determines.                                       *)
C6_TableBounded == Len(inner) <= ReuseBound

(* C7: Free-slot acquisition terminates.  In every reachable state, the     *)
(* call of find_free that insert makes for a key that is not live returns   *)
(* after finitely many iterations of its loop, whatever the cursor and      *)
(* whichever slots are occupied.                                            *)
C7_FindFreeTerminates ==
    fault = "none" =>
        \A idx \in Keys \ Live, oob \in BOOLEAN :
            find_free(check_prefill(inner, idx), next_free_slot, build, oob).kind
                # "diverge"

\* A dense slot has a payload exactly when one live key's redirect names it.
NoLeak(inn, live) ==
    \A p \in 0 .. Len(inn) - 1 :
        (At(inn, p).data # None) <=>
            Cardinality({k \in live :
                /\ GroupIdx(k) < Len(inn)
                /\ At(inn, GroupIdx(k)).redirects[GroupSub(k)] = p}) = 1

(* C8: No leak and no double allocation.  A dense slot has a present        *)
(* payload if and only if it is named by the redirect entry of exactly one  *)
(* live key, and clean(L) for a set L of live keys keeps it so.             *)
C8_NoLeak ==
    fault = "none" =>
        \A has \in SUBSET Live :
            NoLeak(inner, Live) => NoLeak(c_clean(inner, has).inner, Live \ has)

(* C9: Growth monotonicity.  No operation decreases the table length, and   *)
(* check_prefill(m) right after check_prefill(n) with m <= n appends no     *)
(* group.                                                                   *)
C9_GrowthMonotone ==
    [][ /\ Len(inner') >= Len(inner)
        /\ \A n \in 0 .. MaxPrefill, m \in 0 .. MaxPrefill :
               m <= n =>
                   check_prefill(check_prefill(inner, n), m)
                       = check_prefill(inner, n) ]_vars

\* An insert grew the table, and the table now covers more groups than the
\* largest argument for which a second check_prefill is tried.
C9_Witness ==
    /\ last.op = "insert"
    /\ last.outcome = "ok"
    /\ Len(inner) > SPARSE_RATIO
    /\ Len(check_prefill(inner, 1)) = Len(inner)
    /\ Len(check_prefill(<<>>, 1)) = SPARSE_RATIO

(* C10: Clean tests the right index.  For every group position g of the     *)
(* table and sub-slot s, clean(L) dereferences the redirect entry (g, s)    *)
(* exactly when L contains the flat index g * SPARSE_RATIO + s.             *)
C10_CleanIndex ==
    \A has \in SUBSET Keys :
        \A g \in 0 .. Len(inner) - 1, s \in 0 .. SPARSE_RATIO - 1 :
            (<<g, s>> \in CleanDereferenced(inner, has))
                <=> (g * SPARSE_RATIO + s \in has)

(* C11: Stale and blank redirect entries are never followed.  clean(L)      *)
(* reads, and clears a slot through, the redirect entry (g, s) only when    *)
(* the key g * SPARSE_RATIO + s is live at the time of the call; here for   *)
(* every set L of live keys.                                                *)
C11_CleanFollowsLiveOnly ==
    fault = "none" =>
        \A has \in SUBSET Live :
            \A gs \in CleanDereferenced(inner, has) :
                gs[1] * SPARSE_RATIO + gs[2] \in Live

\* The call of find_free that insert(idx, _) makes in the current state,
\* with oob what a read outside the table sees.
FindFreeFor(idx, oob) ==
    find_free(check_prefill(inner, idx), next_free_slot, build, oob)

\* Some position of the table inn has an empty payload.
HasEmpty(inn) == \E p \in 0 .. Len(inn) - 1 : At(inn, p).data = None

(* C12: Growth only on exhaustion.  Whenever at least one position of the   *)
(* table is empty when find_free is called, find_free returns an existing   *)
(* position and leaves the table length unchanged; here for the calls in    *)
(* which find_free reads inside the table only.                             *)
C12_GrowthOnlyOnExhaustion ==
    fault = "none" =>
        \A idx \in Keys \ Live, oob \in BOOLEAN :
            LET pre == check_prefill(inner, idx)
                ff  == FindFreeFor(idx, oob)
            IN  (ff.kind = "ret" /\ ~ff.wild /\ HasEmpty(pre)) =>
                    /\ Len(ff.inner) = Len(pre)
                    /\ InBounds(pre, ff.point)

(* C13: The acquired slot is free and in bounds.  Every position returned   *)
(* by find_free is smaller than the table length and has an empty payload   *)
(* at the moment it is returned.                                            *)
C13_AcquiredSlotFree ==
    fault = "none" =>
        \A idx \in Keys \ Live, oob \in BOOLEAN :
            LET ff == FindFreeFor(idx, oob)
            IN  ff.kind = "ret" =>
                    /\ ULess(ff.point, Len(ff.inner))
                    /\ InBounds(ff.inner, ff.point)
                    /\ At(ff.inner, ff.point).data = None

(* C14: The home group exists when insert writes it.  For every index,      *)
(* index 0 on an empty storage included, when find_free has returned and    *)
(* insert writes the redirect entry, the table length is greater than       *)
(* index div SPARSE_RATIO.                                                  *)
C14_HomeGroupExists ==
    fault = "none" =>
        \A idx \in Keys \ Live, oob \in BOOLEAN :
            LET ff == FindFreeFor(idx, oob)
            IN  ff.kind = "ret" => GroupIdx(idx) < Len(ff.inner)

(* C15: The redirect entry holds the acquired position.  After insert(k, v) *)
(* the redirect entry of k equals the position returned by find_free, for   *)
(* every table size: the 16-bit redirect field does not truncate it.        *)
C15_RedirectHoldsPosition ==
    fault = "none" =>
        \A idx \in DOMAIN shadow \ Live, v \in Values, oob \in BOOLEAN :
            LET r == c_insert(inner, next_free_slot, build, idx, v, oob)
            IN  r.outcome = "ok" =>
                    At(r.inner, GroupIdx(idx)).redirects[GroupSub(idx)] = r.point

(* C16: Checked lookup reports absence.  c_get(k) returns None for every    *)
(* index k the table covers that is not live, also when the blank or stale  *)
(* redirect entry of k names a slot that holds another key's value.         *)
C16_CheckedLookupAbsent ==
    fault = "none" =>
        \A k \in DOMAIN shadow \ Live :
            GroupIdx(k) < Len(inner) =>
                c_get(inner, build, k) = [kind |-> "ret", val |-> None]

(* C17: Remove changes only the removed slot.  c_remove(k) on a live key k  *)
(* stays inside the table and leaves every redirect entry (the now stale    *)
(* entry of k included), the payload of every slot other than the one k's   *)
(* entry names, and the table length unchanged.                             *)
C17_RemoveFrame ==
    fault = "none" =>
        \A k \in Live :
            LET r == c_remove(inner, build, k)
            IN  /\ r.kind = "ret"
                /\ Len(r.inner) = Len(inner)
                /\ \A p \in 0 .. Len(inner) - 1 :
                       /\ At(r.inner, p).redirects = At(inner, p).redirects
                       /\ p # Redirect(k) => At(r.inner, p).data = At(inner, p).data

\* A remove has returned the value of a key whose redirect entry, now
\* stale, still names the emptied slot, while the other key is live.
C17_Witness ==
    /\ last.op = "remove" /\ last.outcome = "ok"
    /\ last.idx \notin Live /\ Live # {}
    /\ Redirect(last.idx) # 0
    /\ At(inner, Redirect(last.idx)).data = None

(* C18: Re-insertion orphans the old slot.  insert(k, v2) while k is live   *)
(* with value v1 in slot s1 completes; afterwards the redirect entry of k   *)
(* names a slot s2 # s1 that holds v2, slot s1 still holds v1, and no live  *)
(* key's redirect entry names s1.                                           *)
C18_ReinsertOrphans ==
    fault = "none" =>
        \A k \in Live, v2 \in Values, oob \in BOOLEAN :
            LET s1 == Redirect(k)
                r  == c_insert(inner, next_free_slot, build, k, v2, oob)
                Entry(j) == At(r.inner, GroupIdx(j)).redirects[GroupSub(j)]
            IN  /\ r.outcome = "ok"
                /\ Entry(k) # s1
                /\ At(r.inner, Entry(k)).data = Some(v2)
                /\ At(r.inner, s1).data = shadow[k]
                /\ \A j \in Live : Entry(j) # s1

(* C19: The cursor never underflows.  Whenever find_free runs, in           *)
(* particular for the first insert into IDVStorage::default(), the cursor   *)
(* next_free_slot is at least 1 and the table is non-empty, so neither      *)
(* next_free_slot - 1 nor len - 1 wraps, and every position the scan reads  *)
(* is inside the table.                                                     *)
C19_CursorNeverUnderflows ==
    fault = "none" =>
        \A idx \in DOMAIN shadow \ Live :
            /\ next_free_slot >= 1
            /\ Len(check_prefill(inner, idx)) >= 1
            /\ \A oob \in BOOLEAN : ~FindFreeFor(idx, oob).wild

(* C20: Live redirects stay in bounds.  For every live key k the table      *)
(* covers group k div SPARSE_RATIO and the redirect entry of k is smaller   *)
(* than the table length.                                                   *)
C20_LiveRedirectsInBounds ==
    \A k \in Live :
        /\ GroupIdx(k) < Len(inner)
        /\ ULess(Redirect(k), Len(inner))
====
